---- MODULE Spec2Model ----
(***************************************************************************)
(* A model of fileman's src/app.py: the path resolution and containment    *)
(* logic (coerce_path, is_within_root), the directory lister and the three *)
(* HTTP handlers /api/list, /api/file and /api/text_preview, over a small  *)
(* POSIX filesystem with directories, regular files and symbolic links.    *)
(*                                                                         *)
(* A path string is a record [abs, segs]: abs says whether it starts with  *)
(* "/", segs is its sequence of segments.  The empty string is             *)
(* [abs |-> FALSE, segs |-> <<>>]; "." segments and doubled slashes, which *)
(* pathlib drops when it parses a string, are not part of the inputs.      *)
(* Symlink loops (on which Path.resolve raises) are not part of the        *)
(* filesystems enumerated here.                                            *)
(***************************************************************************)
EXTENDS Integers, Sequences, FiniteSets, TLC

VARIABLES fs, faults, allowed_roots, req, resp, pc

vars == <<fs, faults, allowed_roots, req, resp, pc>>

----------------------------------------------------------------------------
(* Bounds of the model.                                                    *)

\* longest `root` query parameter, in segments
MaxRootLen == 2
\* longest `path` query parameter, in segments
MaxPathLen == 2
\* file sizes tried on each side of the preview cap
PreviewSpan == 40

----------------------------------------------------------------------------
(* Names and strings.                                                      *)

\* the segment names a client may send
ReqNames == {"d", "d2", "f", "l"}
\* names that only occur as directory children
AllNames == ReqNames \cup {"a", "A", "b"}
DotDot == ".."
Segs == ReqNames \cup {DotDot}

\* the characters of each name, as code points
Spelling(n) ==
    CASE n = "d"  -> <<100>>
      [] n = "d2" -> <<100, 50>>
      [] n = "f"  -> <<102>>
      [] n = "l"  -> <<108>>
      [] n = "a"  -> <<97>>
      [] n = "A"  -> <<65>>
      [] n = "b"  -> <<98>>
      [] n = ".." -> <<46, 46>>

SeqsUpTo(S, n) == UNION {[1..k -> S] : k \in 0..n}

Str(a, s) == [abs |-> a, segs |-> s]
EmptyStr == Str(FALSE, <<>>)
Slash == Str(TRUE, <<>>)

\* str.lower() on ASCII code points
lower(cs) == [i \in 1..Len(cs) |-> IF cs[i] >= 65 /\ cs[i] <= 90 THEN cs[i] + 32 ELSE cs[i]]

\* Python's < on two strings: the first differing code point decides, a
\* proper prefix is smaller
RECURSIVE StrLess(_, _)
StrLess(x, y) ==
    IF y = <<>> THEN FALSE
    ELSE IF x = <<>> THEN TRUE
    ELSE IF Head(x) # Head(y) THEN Head(x) < Head(y)
    ELSE StrLess(Tail(x), Tail(y))

\* str(Path): "/" followed by the segments joined with "/"
RECURSIVE JoinSegs(_)
JoinSegs(s) ==
    IF s = <<>> THEN <<>>
    ELSE IF Len(s) = 1 THEN Spelling(s[1])
    ELSE Spelling(s[1]) \o <<47>> \o JoinSegs(Tail(s))

PathChars(p) == (IF p.abs THEN <<47>> ELSE <<>>) \o JoinSegs(p.segs)

\* the same string as text, for messages that quote a path
RECURSIVE JoinText(_)
JoinText(s) ==
    IF s = <<>> THEN ""
    ELSE IF Len(s) = 1 THEN s[1]
    ELSE s[1] \o "/" \o JoinText(Tail(s))

PathText(p) == (IF p.abs THEN "/" ELSE "") \o JoinText(p.segs)

StartsWith(x, y) == Len(y) <= Len(x) /\ SubSeq(x, 1, Len(y)) = y

----------------------------------------------------------------------------
(* The filesystem: a function from absolute node paths (sequences of       *)
(* names) to [kind, target, size], kind in {"dir","file","link","none"}.   *)

Nodes == { <<>>, <<"d">>, <<"d", "d">>, <<"d", "d", "f">>, <<"d", "d", "a">>,
           <<"d", "d", "A">>, <<"d", "d", "b">>, <<"d", "f">>, <<"d", "l">>,
           <<"d2">>, <<"d2", "f">>, <<"f">> }

\* st_size of a directory: one block of the filesystem holding the tree
DirSize == 4096

Dir == [kind |-> "dir", target |-> EmptyStr, size |-> DirSize]
File(n) == [kind |-> "file", target |-> EmptyStr, size |-> n]
Link(t) == [kind |-> "link", target |-> t, size |-> Len(PathChars(t))]
None == [kind |-> "none", target |-> EmptyStr, size |-> 0]

ButLast(s) == IF s = <<>> THEN <<>> ELSE SubSeq(s, 1, Len(s) - 1)

\* os.lstat of a path whose directory part is already physical: the node
\* exists when every proper ancestor is a directory
Lstat(f, p) ==
    IF p \in Nodes /\ \A k \in 0..(Len(p) - 1) : f[SubSeq(p, 1, k)].kind = "dir"
    THEN f[p] ELSE None

\* posixpath._joinrealpath: walk `rest` from the resolved prefix `path`;
\* ".." drops the last resolved segment lexically, a symlink is replaced by
\* the resolution of its target, a missing component is appended as is
RECURSIVE joinrealpath(_, _, _)
joinrealpath(f, path, rest) ==
    IF rest = <<>> THEN path
    ELSE LET name == Head(rest)
             newpath == Append(path, name)
             st == Lstat(f, newpath)
         IN IF name = DotDot THEN joinrealpath(f, ButLast(path), Tail(rest))
            ELSE IF st.kind # "link" THEN joinrealpath(f, newpath, Tail(rest))
            ELSE joinrealpath(f,
                     joinrealpath(f, IF st.target.abs THEN <<>> ELSE path, st.target.segs),
                     Tail(rest))

\* Path(p).resolve() for an absolute p, as a path string
resolve(f, p) == Str(TRUE, joinrealpath(f, <<>>, p.segs))

\* The kernel's own path walk, used by exists/is_dir/is_file/scandir/open:
\* every component must exist, ".." is the parent directory of the
\* directory reached so far, symlinks are followed.  The result is the
\* physical node reached, or <<"ENOENT">>.
NoEnt == <<"ENOENT">>

RECURSIVE namei(_, _, _)
namei(f, cur, rest) ==
    IF cur = NoEnt THEN NoEnt
    ELSE IF rest = <<>> THEN cur
    ELSE IF f[cur].kind # "dir" THEN NoEnt
    ELSE LET name == Head(rest)
             nxt == Append(cur, name)
             st == Lstat(f, nxt)
         IN IF name = DotDot THEN namei(f, ButLast(cur), Tail(rest))
            ELSE IF st.kind = "none" THEN NoEnt
            ELSE IF st.kind = "link"
                 THEN namei(f, namei(f, IF st.target.abs THEN <<>> ELSE cur, st.target.segs),
                            Tail(rest))
            ELSE namei(f, nxt, Tail(rest))

\* Path.exists / Path.is_dir / Path.is_file of an absolute path string
exists(f, p) == namei(f, <<>>, p.segs) # NoEnt
is_dir(f, p) == exists(f, p) /\ f[namei(f, <<>>, p.segs)].kind = "dir"
is_file(f, p) == exists(f, p) /\ f[namei(f, <<>>, p.segs)].kind = "file"

----------------------------------------------------------------------------
(* Faults the operating system may raise: on opening a directory for       *)
(* enumeration, on the lstat of a child, on opening or reading a file.     *)

Errs == {"ok", "PermissionError", "OSError"}

\* The OSError of path.open or handle.read: errno 0 is no error; filename
\* says whether the exception carries the path (open does, read does not).
NoExc == [errno |-> 0, strerror |-> "", filename |-> FALSE]
OpenDenied == [errno |-> 13, strerror |-> "Permission denied", filename |-> TRUE]
ReadFailed == [errno |-> 5, strerror |-> "Input/output error", filename |-> FALSE]
ReadExcs == {NoExc, OpenDenied, ReadFailed}

\* str(exc) of an OSError raised on `path`
exc_str(exc, path) ==
    "[Errno " \o ToString(exc.errno) \o "] " \o exc.strerror
        \o (IF exc.filename THEN ": '" \o PathText(path) \o "'" ELSE "")

NoFaults == [scan |-> "ok", read |-> NoExc, stat |-> [n \in Nodes |-> "ok"]]

----------------------------------------------------------------------------
(* Responses.                                                              *)

\* Python's None, for `parent`
NULL == Str(FALSE, <<"None">>)

MAX_TEXT_PREVIEW_BYTES == 512 * 1024

\* status 0: no response yet.  loc is the physical node whose entries or
\* bytes are returned, content_len the number of bytes of it returned.
NoResp == [status |-> 0, error |-> "", target |-> NULL, path |-> NULL, loc |-> NoEnt,
           entries |-> <<>>, parent |-> NULL, content_len |-> 0, truncated |-> FALSE,
           within |-> FALSE]

abort(code, description) == [NoResp EXCEPT !.status = code, !.error = description]

----------------------------------------------------------------------------
(* The functions of create_app.                                            *)

\* get_allowed_roots: the configured roots, each resolved
get_allowed_roots(f, cfg) == [i \in 1..Len(cfg) |-> resolve(f, cfg[i])]

\* Path.parents of an absolute path: its proper ancestors
parents(p) == {Str(TRUE, SubSeq(p.segs, 1, k)) : k \in 0..(Len(p.segs) - 1)}

\* the plausible slip: containment as a prefix test on the path strings
is_within_root_startswith(f, path_str, root_str) ==
    StartsWith(PathChars(resolve(f, path_str)), PathChars(resolve(f, root_str)))

is_within_root(f, path_str, root_str) ==
    LET real_path == resolve(f, path_str)
        real_root == resolve(f, root_str)
    IN IF real_path = real_root THEN TRUE
       ELSE real_root \in parents(real_path)

coerce_path(f, p, default_root) ==
    IF p = EmptyStr THEN default_root
    ELSE IF ~p.abs THEN resolve(f, Str(default_root.abs, default_root.segs \o p.segs))
    ELSE resolve(f, p)

\* Path.parent: the path without its last segment, "/" for "/"
parent_of(p) == Str(p.abs, ButLast(p.segs))

\* the names os.scandir yields for a directory node
Children(f, node) == {n \in AllNames : Lstat(f, Append(node, n)).kind # "none"}

Perms(S) == {s \in [1..Cardinality(S) -> S] : \A i, j \in 1..Cardinality(S) : i # j => s[i] # s[j]}

\* the orders in which the OS may enumerate the directory at p
ScanOrders(f, p) == IF is_dir(f, p) THEN Perms(Children(f, namei(f, <<>>, p.segs))) ELSE {<<>>}

\* the dict appended for one child (lines 93-105); is_dir does not follow
\* symlinks
entry_of(f, node, name) ==
    LET st == Lstat(f, Append(node, name))
    IN [name |-> name, is_dir |-> (st.kind = "dir"), size |-> st.size]

\* the slip: no handler around the per-entry block
entry_except_reraise(exc) == exc

\* `except Exception: continue` of the per-entry block
entry_except(exc) == "continue"

\* the for loop over the scandir iterator: the entries collected, and the
\* exception that left the loop, if any
RECURSIVE scan_loop(_, _, _, _, _)
scan_loop(f, flt, node, order, acc) ==
    IF order = <<>> THEN [exc |-> "ok", entries |-> acc]
    ELSE LET name == Head(order)
             raised == flt.stat[Append(node, name)]
         IN IF raised = "ok"
            THEN scan_loop(f, flt, node, Tail(order), Append(acc, entry_of(f, node, name)))
            ELSE IF entry_except(raised) = "continue"
                 THEN scan_loop(f, flt, node, Tail(order), acc)
            ELSE [exc |-> entry_except(raised), entries |-> acc]

\* the sort key (0 if e["is_dir"] else 1, e["name"].lower())
sort_key(e) == <<IF e.is_dir THEN 0 ELSE 1, lower(Spelling(e.name))>>

KeyLess(k1, k2) == k1[1] < k2[1] \/ (k1[1] = k2[1] /\ StrLess(k1[2], k2[2]))

\* list.sort is stable: an element goes after every element whose key is
\* not greater than its own
RECURSIVE InsertStable(_, _)
InsertStable(sorted, e) ==
    IF sorted = <<>> THEN <<e>>
    ELSE IF KeyLess(sort_key(e), sort_key(Head(sorted))) THEN <<e>> \o sorted
    ELSE <<Head(sorted)>> \o InsertStable(Tail(sorted), e)

RECURSIVE sort_entries(_)
sort_entries(es) ==
    IF es = <<>> THEN <<>>
    ELSE InsertStable(sort_entries(ButLast(es)), es[Len(es)])

list_directory(f, flt, path_str, order) ==
    LET node == namei(f, <<>>, path_str.segs)
        scanned == IF flt.scan # "ok" THEN [exc |-> flt.scan, entries |-> <<>>]
                   ELSE scan_loop(f, flt, node, order, <<>>)
    IN IF ~exists(f, path_str) THEN abort(404, "Path not found")
       ELSE IF ~is_dir(f, path_str) THEN abort(400, "Path is not a directory")
       ELSE IF scanned.exc = "PermissionError" THEN abort(403, "Permission denied")
       ELSE IF scanned.exc # "ok" THEN abort(500, "Internal Server Error")
       ELSE [NoResp EXCEPT !.status = 200, !.path = resolve(f, path_str), !.loc = node,
                           !.entries = sort_entries(scanned.entries)]

\* request.args.get("root") or (roots[0] if roots else "/")
chosen_root(f, cfg, root_param) ==
    LET roots == get_allowed_roots(f, cfg)
    IN IF root_param # EmptyStr THEN root_param
       ELSE IF roots # <<>> THEN roots[1] ELSE Slash

\* the slip: the checks of the file endpoints in another order, existence
\* before containment
resolve_requested_file_exists_first(f, cfg, root_param, path_param) ==
    LET root == chosen_root(f, cfg, root_param)
        target == coerce_path(f, path_param, root)
    IN IF path_param = EmptyStr THEN abort(400, "Missing path")
       ELSE IF ~exists(f, root) \/ ~is_dir(f, root)
            THEN [abort(400, "Root must be an existing directory") EXCEPT !.target = target]
       ELSE IF ~exists(f, target)
            THEN [abort(404, "File not found") EXCEPT !.target = target]
       ELSE IF ~is_within_root(f, target, root)
            THEN [abort(403, "Path is outside the chosen root") EXCEPT !.target = target]
       ELSE [NoResp EXCEPT !.target = target]

\* resolve_requested_file: an abort, or status 0 and the target to open
resolve_requested_file(f, cfg, root_param, path_param) ==
    LET root == chosen_root(f, cfg, root_param)
        target == coerce_path(f, path_param, root)
    IN IF path_param = EmptyStr THEN abort(400, "Missing path")
       ELSE IF ~exists(f, root) \/ ~is_dir(f, root)
            THEN [abort(400, "Root must be an existing directory") EXCEPT !.target = target]
       ELSE IF ~is_within_root(f, target, root)
            THEN [abort(403, "Path is outside the chosen root") EXCEPT !.target = target]
       ELSE [NoResp EXCEPT !.target = target]

\* the slip: /api/list without its containment check
list_checks_unguarded(f, cfg, root_param, path_param) ==
    LET root == chosen_root(f, cfg, root_param)
        target == coerce_path(f, path_param, root)
    IN IF ~exists(f, root) \/ ~is_dir(f, root)
       THEN [abort(400, "Root must be an existing directory") EXCEPT !.target = target]
       ELSE [NoResp EXCEPT !.target = target]

\* api_list up to its containment check (lines 130-141)
list_checks(f, cfg, root_param, path_param) ==
    LET root == chosen_root(f, cfg, root_param)
        target == coerce_path(f, path_param, root)
    IN IF ~exists(f, root) \/ ~is_dir(f, root)
       THEN [abort(400, "Root must be an existing directory") EXCEPT !.target = target]
       ELSE IF ~is_within_root(f, target, root)
            THEN [abort(403, "Path is outside the chosen root") EXCEPT !.target = target]
       ELSE [NoResp EXCEPT !.target = target]

\* the `parent` of a listing (lines 144-145)
list_parent(f, target, root) ==
    LET parent == resolve(f, parent_of(target))
    IN IF parent # resolve(f, target) /\ is_within_root(f, parent, root) THEN parent ELSE NULL

\* api_list from list_directory on (lines 142-146)
list_body(f, flt, target, root, order) ==
    LET data == list_directory(f, flt, target, order)
    IN IF data.status # 200 THEN [data EXCEPT !.target = target]
       ELSE [data EXCEPT !.target = target, !.parent = list_parent(f, target, root)]

api_list(f, flt, cfg, root_param, path_param, order) ==
    LET checked == list_checks(f, cfg, root_param, path_param)
    IN IF checked.status # 0 THEN checked
       ELSE list_body(f, flt, checked.target, chosen_root(f, cfg, root_param), order)

\* api_file after resolve_requested_file (lines 167-170): the whole file
file_body(f, target) ==
    LET node == namei(f, <<>>, target.segs)
    IN IF ~exists(f, target) \/ ~is_file(f, target)
       THEN [abort(404, "File not found") EXCEPT !.target = target]
       ELSE [NoResp EXCEPT !.status = 200, !.target = target, !.path = target, !.loc = node,
                           !.content_len = f[node].size]

api_file(f, cfg, root_param, path_param) ==
    LET checked == resolve_requested_file(f, cfg, root_param, path_param)
    IN IF checked.status # 0 THEN checked ELSE file_body(f, checked.target)

\* handle.read(n): at most n bytes, fewer at the end of the file
read(size, n) == IF size < n THEN size ELSE n

\* truncated = len(raw) > MAX_TEXT_PREVIEW_BYTES
truncated_flag(raw_len) == raw_len > MAX_TEXT_PREVIEW_BYTES

\* api_text_preview after resolve_requested_file (lines 175-191); the
\* content is the decoding of every byte read
preview_body(f, flt, target) ==
    LET node == namei(f, <<>>, target.segs)
        raw_len == read(f[node].size, MAX_TEXT_PREVIEW_BYTES + 1)
    IN IF ~exists(f, target) \/ ~is_file(f, target)
       THEN [abort(404, "File not found") EXCEPT !.target = target]
       ELSE IF flt.read # NoExc
            THEN [abort(500, "Unable to read file: " \o exc_str(flt.read, target))
                    EXCEPT !.target = target]
       ELSE [NoResp EXCEPT !.status = 200, !.target = target, !.path = target, !.loc = node,
                           !.content_len = raw_len, !.truncated = truncated_flag(raw_len)]

api_text_preview(f, flt, cfg, root_param, path_param) ==
    LET checked == resolve_requested_file(f, cfg, root_param, path_param)
    IN IF checked.status # 0 THEN checked ELSE preview_body(f, flt, checked.target)

----------------------------------------------------------------------------
(* The state machine: a server answering one request at a time, over a     *)
(* filesystem and a config.yaml that change between requests.              *)

P_d == Str(TRUE, <<"d">>)
P_d2 == Str(TRUE, <<"d2">>)
P_dl == Str(TRUE, <<"d", "l">>)

\* what the symlink /d/l may point at: a directory outside /d, the
\* subdirectory /d/d (relative target), "/", a file outside /d
LinkTargets == {P_d2, Str(FALSE, <<"d">>), Slash, Str(TRUE, <<"d2", "f">>)}

\* the allowed_roots lists of config.yaml tried
Configs == {<<>>, <<P_d>>, <<P_dl, P_d2>>}

Tree(t) ==
    [n \in Nodes |->
        CASE n = <<>> -> Dir
          [] n = <<"d">> -> Dir
          [] n = <<"d", "d">> -> Dir
          [] n = <<"d", "d", "f">> -> File(3)
          [] n = <<"d", "d", "a">> -> File(1)
          [] n = <<"d", "d", "A">> -> Dir
          [] n = <<"d", "d", "b">> -> File(2)
          [] n = <<"d", "f">> -> File(100)
          [] n = <<"d", "l">> -> Link(t)
          [] n = <<"d2">> -> Dir
          [] n = <<"d2", "f">> -> File(7)
          [] n = <<"f">> -> File(5)]

RootParams == {EmptyStr} \cup {Str(TRUE, s) : s \in SeqsUpTo(Segs, MaxRootLen)}
PathParams == {Str(a, s) : a \in BOOLEAN, s \in SeqsUpTo(Segs, MaxPathLen)}

Idle == [step |-> "idle"]
NoReq == [endpoint |-> "", root |-> EmptyStr, path |-> EmptyStr]
Req(e, r, p) == [endpoint |-> e, root |-> r, path |-> p]

\* GET /api/list?root=r&path=p for r in R, p in P
ListRequests(R, P) ==
    \E r \in R, p \in P :
      \E order \in ScanOrders(fs, coerce_path(fs, p, chosen_root(fs, allowed_roots, r))) :
        /\ req' = Req("list", r, p)
        /\ resp' = api_list(fs, faults, allowed_roots, r, p, order)
        /\ UNCHANGED <<fs, faults, allowed_roots, pc>>

\* GET /api/file?root=r&path=p
FileRequests(R, P) ==
    \E r \in R, p \in P :
        /\ req' = Req("file", r, p)
        /\ resp' = api_file(fs, allowed_roots, r, p)
        /\ UNCHANGED <<fs, faults, allowed_roots, pc>>

\* GET /api/text_preview?root=r&path=p
PreviewRequests(R, P) ==
    \E r \in R, p \in P :
        /\ req' = Req("text_preview", r, p)
        /\ resp' = api_text_preview(fs, faults, allowed_roots, r, p)
        /\ UNCHANGED <<fs, faults, allowed_roots, pc>>

\* the server takes a request when no response is outstanding
Ready == pc = Idle /\ resp = NoResp

ApiList == Ready /\ ListRequests(RootParams, PathParams)
ApiFile == Ready /\ FileRequests(RootParams, PathParams)
ApiTextPreview == Ready /\ PreviewRequests(RootParams, PathParams)

\* the response leaves; nothing of the request is kept
Reply ==
    /\ pc.step # "checked" /\ resp # NoResp
    /\ req' = NoReq /\ resp' = NoResp /\ pc' = Idle
    /\ UNCHANGED <<fs, faults, allowed_roots>>

\* the administrator edits allowed_roots in config.yaml
EditConfig ==
    /\ Ready
    /\ \E c \in Configs \ {allowed_roots} : allowed_roots' = c
    /\ UNCHANGED <<fs, faults, req, resp, pc>>

\* someone retargets the symlink /d/l
Retarget ==
    /\ Ready
    /\ \E t \in LinkTargets \ {fs[<<"d", "l">>].target} :
          fs' = [fs EXCEPT ![<<"d", "l">>] = Link(t)]
    /\ UNCHANGED <<faults, allowed_roots, req, resp, pc>>

Init ==
    /\ fs \in {Tree(t) : t \in LinkTargets}
    /\ faults = NoFaults
    /\ allowed_roots \in Configs
    /\ req = NoReq
    /\ resp = NoResp
    /\ pc = Idle

Next == ApiList \/ ApiFile \/ ApiTextPreview \/ Reply \/ EditConfig \/ Retarget

Spec == Init /\ [][Next]_vars

----------------------------------------------------------------------------
(* What the claims speak of, for the request and response of a state.      *)

\* a sequence of segments equals `root` or continues it, segment by segment
SegUnder(segs, root) == Len(root) <= Len(segs) /\ \A i \in 1..Len(root) : segs[i] = root[i]

TheRoot == chosen_root(fs, allowed_roots, req.root)
RootValid == is_dir(fs, TheRoot)
\* the directory the chosen root names, as the kernel reaches it
RootNode == namei(fs, <<>>, TheRoot.segs)
\* canonical(R): the chosen root with "..", and symlinks collapsed
CanonRoot == resolve(fs, TheRoot)
\* the requested location: the root for an empty path, the path itself if
\* absolute, else the path joined under the root; then collapsed
CanonTarget ==
    resolve(fs, IF req.path.abs THEN req.path
                ELSE Str(TRUE, TheRoot.segs \o req.path.segs))
TargetInside == SegUnder(CanonTarget.segs, CanonRoot.segs)
Answered == req.endpoint # "" /\ resp.status # 0
Served == Answered /\ resp.status = 200
NothingReturned == resp.entries = <<>> /\ resp.content_len = 0 /\ resp.loc = NoEnt
FileEndpoint == req.endpoint \in {"file", "text_preview"}

\* C1 (as stated): whatever is returned lies inside one of the configured
\* allowed_roots, and a request whose root parameter is not one of them
\* returns nothing.  Stated for the configurations that name at least one
\* root, leaving aside the documented fallback to "/" of an empty list.
C1_OnlyAllowedRoots ==
    (Served /\ allowed_roots # <<>>) =>
        /\ \E i \in 1..Len(allowed_roots) :
              SegUnder(resp.loc, get_allowed_roots(fs, allowed_roots)[i].segs)
        /\ req.root # EmptyStr =>
              \E i \in 1..Len(allowed_roots) :
                 req.root \in {allowed_roots[i], get_allowed_roots(fs, allowed_roots)[i]}

\* C2: with a root that is an existing directory, entries or bytes are
\* returned only when the canonical target is the canonical root or below
\* it, and they are those of a node below the root directory; every request
\* for a target elsewhere ends with 403 "outside the chosen root" and
\* returns nothing.
C2_ContainedOr403 ==
    (Answered /\ RootValid) =>
        /\ Served => (TargetInside /\ SegUnder(resp.loc, RootNode)
                        /\ resp.loc = CanonTarget.segs)
        /\ ~TargetInside => (resp.status = 403
                               /\ resp.error = "Path is outside the chosen root"
                               /\ NothingReturned)

\* a traversal through the symlink /d/l -> /d2 is refused
C2_Witness ==
    /\ Answered /\ req.endpoint = "file"
    /\ req.root = P_d /\ req.path = Str(FALSE, <<"l", "f">>)
    /\ fs[<<"d", "l">>].target = P_d2
    /\ is_file(fs, Str(TRUE, <<"d2", "f">>))
    /\ resp.status = 403

\* C5 (as stated): for an empty requested path coerce_path yields the
\* canonical form of the root.
C5_EmptyPathIsCanonicalRoot ==
    (Answered /\ req.endpoint = "list" /\ req.path = EmptyStr) =>
        resp.target = resolve(fs, TheRoot)

\* C7 (as stated): the parent of a listing is None or a canonical directory
\* other than the listed path and within the chosen root; it is None when
\* the listed path is the chosen root and present when the listed path is
\* strictly below the chosen root.
C7_ParentWithinRoot ==
    (Served /\ req.endpoint = "list") =>
        /\ resp.parent # NULL =>
              /\ resp.parent # resp.path
              /\ resp.parent = resolve(fs, resp.parent)
              /\ is_dir(fs, resp.parent)
              /\ SegUnder(resp.parent.segs, CanonRoot.segs)
        /\ resp.path = CanonRoot => resp.parent = NULL
        /\ (resp.path # CanonRoot /\ SegUnder(resp.path.segs, CanonRoot.segs))
              => resp.parent # NULL

\* C9: containment is decided before existence and type.  With a valid
\* root a target outside it gets 403 whether or not it exists; 404 and 400
\* "not a directory" are only given for targets inside the root; the file
\* endpoints answer missing path (400), invalid root (400), outside root
\* (403), not found (404) in that order.
C9_ContainmentFirst ==
    Answered =>
        /\ (RootValid /\ ~TargetInside) => resp.status = 403
        /\ resp.status = 404 => (RootValid /\ TargetInside)
        /\ resp.error = "Path is not a directory" => (RootValid /\ TargetInside)
        /\ FileEndpoint =>
              resp.status =
                 IF req.path = EmptyStr THEN 400
                 ELSE IF ~RootValid THEN 400
                 ELSE IF ~TargetInside THEN 403
                 ELSE IF ~is_file(fs, CanonTarget) THEN 404
                 ELSE 200
        /\ (FileEndpoint /\ req.path = EmptyStr) => resp.error = "Missing path"

\* a target outside the root that does not exist is answered 403, not 404
C9_Witness ==
    /\ Answered /\ req.endpoint = "text_preview"
    /\ req.root = P_d /\ req.path = Str(TRUE, <<"d2", "d">>)
    /\ ~exists(fs, req.path)
    /\ resp.status = 403

----------------------------------------------------------------------------
(* is_within_root on its own: every pair of absolute path strings.         *)

AbsStrs(n) == {Str(TRUE, s) : s \in SeqsUpTo(Segs, n)}
Trees == {Tree(t) : t \in LinkTargets}
Returned == [step |-> "returned"]

InitWithin ==
    /\ fs \in Trees
    /\ faults = NoFaults
    /\ allowed_roots = <<>>
    /\ req \in {Req("is_within_root", r, c) : r \in AbsStrs(MaxRootLen), c \in AbsStrs(MaxPathLen)}
    /\ resp = NoResp
    /\ pc = Idle

\* is_within_root(req.path, req.root)
IsWithinRoot ==
    /\ pc = Idle
    /\ resp' = [NoResp EXCEPT !.within = is_within_root(fs, req.path, req.root)]
    /\ pc' = Returned
    /\ UNCHANGED <<fs, faults, allowed_roots, req>>

NextWithin == IsWithinRoot

SpecWithin == InitWithin /\ [][NextWithin]_vars

\* C3: is_within_root is true exactly when the canonical candidate is the
\* canonical root or continues it segment by segment; a sibling whose
\* string merely starts with the root's string is not within it; with root
\* "/" every absolute path is.
C3_WithinIffAncestor ==
    pc = Returned =>
        LET c == resolve(fs, req.path)
            r == resolve(fs, req.root)
        IN /\ resp.within = SegUnder(c.segs, r.segs)
           /\ (StartsWith(PathChars(c), PathChars(r)) /\ \E i \in 1..Len(r.segs) :
                   i > Len(c.segs) \/ c.segs[i] # r.segs[i]) => ~resp.within
           /\ r = Slash => resp.within

\* root /d, candidate /d2: a sibling sharing the string prefix, refused
C3_Witness ==
    /\ pc = Returned
    /\ req.root = P_d /\ req.path = P_d2
    /\ StartsWith(PathChars(req.path), PathChars(req.root))
    /\ ~resp.within

----------------------------------------------------------------------------
(* Listing /d/d with every mix of children, per-child stat failures and    *)
(* enumeration failures.                                                   *)

D_dd == <<"d", "d">>
ListKinds == {None, File(1), Dir}

ListTrees ==
    {[Tree(P_d2) EXCEPT ![<<"d", "d", "a">>] = ka, ![<<"d", "d", "A">>] = kA,
                        ![<<"d", "d", "b">>] = kb] :
        ka \in ListKinds, kA \in ListKinds, kb \in ListKinds}

ListFaults ==
    {[scan |-> sc, read |-> NoExc,
      stat |-> [n \in Nodes |-> IF n = <<"d", "d", "a">> THEN ea
                                ELSE IF n = <<"d", "d", "A">> THEN eA
                                ELSE IF n = <<"d", "d", "b">> THEN eb
                                ELSE IF n = <<"d", "d", "f">> THEN ef ELSE "ok"]] :
        sc \in Errs, ea \in Errs, eA \in Errs, eb \in Errs, ef \in Errs}

InitList ==
    /\ fs \in ListTrees
    /\ faults \in ListFaults
    /\ allowed_roots = <<P_d>>
    /\ req = NoReq
    /\ resp = NoResp
    /\ pc = Idle

\* GET /api/list?path=d, against the default root or root=/d
ApiListSubdir == Ready /\ ListRequests({EmptyStr, P_d}, {Str(FALSE, <<"d">>)})

NextList == ApiListSubdir \/ Reply

SpecList == InitList /\ [][NextList]_vars

\* C6 (as stated): the listing is the same sequence whatever the order in
\* which the OS enumerates the children.
C6_OrderIndependentOfEnumeration ==
    (Served /\ req.endpoint = "list") =>
        \A o \in ScanOrders(fs, resp.target) :
            api_list(fs, faults, allowed_roots, req.root, req.path, o).entries = resp.entries

\* C8: when the enumeration itself succeeds, children whose stat raises
\* (PermissionError included) are left out and the listing succeeds with
\* exactly the entries of the others; 403 "Permission denied" is the answer
\* to a PermissionError of the enumeration and to nothing else.
C8_PerEntryFailuresSkipped ==
    (Answered /\ req.endpoint = "list") =>
        LET kids == Children(fs, D_dd)
            good == {n \in kids : faults.stat[Append(D_dd, n)] = "ok"}
        IN /\ faults.scan = "ok" =>
                /\ resp.status = 200
                /\ Len(resp.entries) = Cardinality(good)
                /\ {resp.entries[i] : i \in 1..Len(resp.entries)}
                      = {entry_of(fs, D_dd, n) : n \in good}
           /\ (resp.status = 403) = (faults.scan = "PermissionError")
           /\ resp.status = 403 => resp.error = "Permission denied"

\* one child's stat raises PermissionError, another's OSError, the rest is
\* listed
C8_Witness ==
    /\ Served /\ req.endpoint = "list"
    /\ faults.stat[<<"d", "d", "a">>] = "PermissionError" /\ fs[<<"d", "d", "a">>].kind = "file"
    /\ faults.stat[<<"d", "d", "b">>] = "OSError" /\ fs[<<"d", "d", "b">>].kind = "dir"
    /\ Len(resp.entries) = 2

----------------------------------------------------------------------------
(* Text preview of /d/f for file sizes around the cap.                     *)

PreviewSizes ==
    {0, 100, 600 * 1024}
      \cup ((MAX_TEXT_PREVIEW_BYTES - PreviewSpan)..(MAX_TEXT_PREVIEW_BYTES + PreviewSpan))

InitPreview ==
    /\ fs \in {[Tree(P_d2) EXCEPT ![<<"d", "f">>] = File(n)] : n \in PreviewSizes}
    /\ faults \in {[NoFaults EXCEPT !.read = e] : e \in ReadExcs}
    /\ allowed_roots = <<P_d>>
    /\ req = NoReq
    /\ resp = NoResp
    /\ pc = Idle

\* GET /api/text_preview?path=f
ApiTextPreviewF == Ready /\ PreviewRequests({EmptyStr, P_d}, {Str(FALSE, <<"f">>)})

NextPreview == ApiTextPreviewF \/ Reply

SpecPreview == InitPreview /\ [][NextPreview]_vars

\* C4 (as stated): a file larger than the cap is previewed as exactly
\* MAX_TEXT_PREVIEW_BYTES bytes with truncated true, a file of at most the
\* cap in full with truncated false.
C4_PreviewAtMostCap ==
    (Served /\ req.endpoint = "text_preview") =>
        LET size == fs[resp.loc].size
        IN IF size > MAX_TEXT_PREVIEW_BYTES
           THEN resp.content_len = MAX_TEXT_PREVIEW_BYTES /\ resp.truncated
           ELSE resp.content_len = size /\ ~resp.truncated

----------------------------------------------------------------------------
(* Requests interleaved with filesystem changes: a handler's path checks   *)
(* and its later exists/open/scandir are separate steps.                   *)

\* root_node: the directory the chosen root named when it was checked
Checked(target, root, node) ==
    [step |-> "checked", target |-> target, root |-> root, root_node |-> node]
Done(node) == [step |-> "done", root_node |-> node]

Received == [step |-> "received"]

\* a request arrives and is routed to its handler
Arrive ==
    /\ Ready
    /\ \E e \in {"list", "file", "text_preview"}, r \in RootParams, p \in PathParams :
          req' = Req(e, r, p)
    /\ pc' = Received
    /\ UNCHANGED <<fs, faults, allowed_roots, resp>>

\* a handler runs up to and including its containment check
Begin(e, checked) ==
    /\ pc = Received /\ req.endpoint = e
    /\ IF checked.status # 0
       THEN resp' = checked /\ pc' = Idle
       ELSE resp' = NoResp /\ pc' = Checked(checked.target, TheRoot, RootNode)
    /\ UNCHANGED <<fs, faults, allowed_roots, req>>

BeginList == Begin("list", list_checks(fs, allowed_roots, req.root, req.path))
BeginFile == Begin("file", resolve_requested_file(fs, allowed_roots, req.root, req.path))
BeginPreview ==
    Begin("text_preview", resolve_requested_file(fs, allowed_roots, req.root, req.path))

FinishList ==
    /\ pc.step = "checked" /\ req.endpoint = "list"
    /\ \E order \in ScanOrders(fs, pc.target) :
          resp' = list_body(fs, faults, pc.target, pc.root, order)
    /\ pc' = Done(pc.root_node)
    /\ UNCHANGED <<fs, faults, allowed_roots, req>>

FinishFile ==
    /\ pc.step = "checked" /\ req.endpoint = "file"
    /\ resp' = file_body(fs, pc.target)
    /\ pc' = Done(pc.root_node)
    /\ UNCHANGED <<fs, faults, allowed_roots, req>>

FinishPreview ==
    /\ pc.step = "checked" /\ req.endpoint = "text_preview"
    /\ resp' = preview_body(fs, faults, pc.target)
    /\ pc' = Done(pc.root_node)
    /\ UNCHANGED <<fs, faults, allowed_roots, req>>

\* while a request is in flight the directory /d/d is moved away and a
\* symlink to /d2 put in its place, or the reverse
Swap ==
    /\ pc.step = "checked"
    /\ fs' = [fs EXCEPT ![D_dd] = IF fs[D_dd].kind = "dir" THEN Link(P_d2) ELSE Dir]
    /\ UNCHANGED <<faults, allowed_roots, req, resp, pc>>

\* while a request is in flight the symlink /d/l is retargeted
RetargetInFlight ==
    /\ pc.step = "checked"
    /\ \E t \in LinkTargets \ {fs[<<"d", "l">>].target} :
          fs' = [fs EXCEPT ![<<"d", "l">>] = Link(t)]
    /\ UNCHANGED <<faults, allowed_roots, req, resp, pc>>

InitRace ==
    /\ fs \in Trees
    /\ faults = NoFaults
    /\ allowed_roots = <<P_d>>
    /\ req = NoReq
    /\ resp = NoResp
    /\ pc = Idle

NextRace ==
    \/ Arrive \/ BeginList \/ BeginFile \/ BeginPreview
    \/ FinishList \/ FinishFile \/ FinishPreview
    \/ Swap \/ RetargetInFlight \/ Reply

SpecRace == InitRace /\ [][NextRace]_vars

\* C10 (as stated): whatever the filesystem does between the containment
\* check and the access, the entries or bytes returned are those of a node
\* inside the chosen root (the directory the root names at the access, or
\* the one it named at the check, should the root itself have moved).
C10_ContainedAtAccess ==
    (Served /\ pc.step = "done") =>
        (SegUnder(resp.loc, RootNode) \/ SegUnder(resp.loc, pc.root_node))

====
